---- MODULE Spec2Model ----
(***************************************************************************)
(* Spending Control: the monthly budget snapshot engine (domain/budget.ts, *)
(* server/actions/budgets.ts) and the transaction ledger                   *)
(* (server/actions/transactions.ts, installments.ts) over the relational   *)
(* store of prisma/migrations (tables, unique indexes, foreign keys).      *)
(*                                                                         *)
(* Every await on a prisma call is one atomic step of the store; a request *)
(* is a process that moves from one await to the next, so that the steps   *)
(* of concurrent requests interleave exactly where the code awaits.        *)
(***************************************************************************)
EXTENDS Integers, FiniteSets, Sequences, TLC

\* ------------------------------------------------------------------ bounds
NumProcs == 2
MaxGroups == 2
MaxPlans == 2
MaxCategories == 1
MaxTransactions == 3
MaxInstallmentPlans == 1
\* rows of the ledgers the aggregation queries are run on
MaxRows == 2
\* arguments of the money utilities: cents of a total, parts, percentages of a list
MaxCents == 120
MaxParts == 3
MaxPercentages == 3
MaxAccounts == 2

Procs == 1..NumProcs
GroupIds == 1..MaxGroups
CategoryIds == 1..MaxCategories
Workspaces == {"w1", "w2"}
Months == {"2024-03", "2024-04"}
\* the workspace the modelled page loads and allocation edits are made for
RequestWorkspaces == {"w1"}
TransactionIds == 1..MaxTransactions
InstallmentPlanIds == 1..MaxInstallmentPlans
AccountIds == 1..MaxAccounts
\* percent values inside the range createGroupSchema accepts
Percents == {30, 50}

VARIABLES
    groups,            \* table BudgetGroup: id -> [workspaceId, defaultPercent, isActive]
    categories,        \* table BudgetCategory: id -> [workspaceId, groupId, isActive]
    plans,             \* table MonthlyBudgetPlan: set of [id, workspaceId, yearMonth]
    allocations,       \* table MonthlyGroupAllocation: <<planId, groupId>> -> percentSnapshot
    req,               \* the requests in flight: process -> its position and locals
    fresh,             \* history: the process whose findMany of groups was the last step (0: none)
    transactions,      \* table Transaction: id -> [workspaceId, type, status, installmentPlanId,
                       \*                           installmentNumber]
    installmentPlans,  \* table InstallmentPlan: id -> [workspaceId, isActive, installmentsCount]
    accounts,          \* table FinancialAccount: id -> [workspaceId, isActive, present];
                       \* present is FALSE once the row has been removed (ids are not reused)
    members,           \* table WorkspaceMember: id -> [userId, workspaceId, role, present]
    out                \* what the last call of a query or of a pure function returned

budgetVars == <<groups, categories, plans, allocations, req, fresh>>
settingsVars == <<accounts, members>>
ledgerVars == <<transactions, installmentPlans, settingsVars>>
vars == <<groups, categories, plans, allocations, req, fresh, transactions, installmentPlans,
          accounts, members, out>>

Empty == <<>>

\* no query or pure function has been called yet
NoCall == [fn |-> "none"]

Idle == [pc |-> "idle", op |-> "none", w |-> "none", m |-> "none", g |-> 0, pct |-> 0,
         groupsRead |-> Empty, created |-> FALSE, undisturbed |-> FALSE, planId |-> 0, seen |-> Empty, err |-> "none",
         incomeTotal |-> 0, accountId |-> 0, transactionCount |-> 0,
         sumIncome |-> -1, sumExpense |-> -1, budgetGroups |-> Empty]

Init ==
    /\ groups = Empty
    /\ categories = Empty
    /\ plans = {}
    /\ allocations = Empty
    /\ req = [p \in Procs |-> Idle]
    /\ fresh = 0
    /\ transactions = Empty
    /\ installmentPlans = Empty
    /\ accounts = Empty
    /\ members = Empty
    /\ out = NoCall

\* ------------------------------------------------------- store primitives

\* the rows of MonthlyBudgetPlan with the key (workspaceId, yearMonth)
PlanRows(w, m) == {pl \in plans : pl.workspaceId = w /\ pl.yearMonth = m}

\* faulty variant: a lookup that misses the stored row
FindUniqueMisses(w, m) == 0

\* prisma.monthlyBudgetPlan.findUnique({where: {workspaceId_yearMonth}}): the id, 0 for null
FindUniquePlan(w, m) ==
    IF PlanRows(w, m) = {} THEN 0 ELSE (CHOOSE pl \in PlanRows(w, m) : TRUE).id

\* faulty variant: the query without its isActive filter
GroupsFindManyInactiveToo(w) ==
    [g \in {x \in DOMAIN groups : groups[x].workspaceId = w} |-> groups[g].defaultPercent]

\* prisma.budgetGroup.findMany({where: {workspaceId, isActive: true}}): id -> defaultPercent
GroupsFindMany(w) ==
    [g \in {x \in DOMAIN groups : groups[x].workspaceId = w /\ groups[x].isActive}
        |-> groups[g].defaultPercent]

\* faulty variant: the table without its unique index
NoUniqueIndex(w, m) == FALSE

\* the unique index MonthlyBudgetPlan_workspaceId_yearMonth_key rejects the insert
UniqueViolation(w, m) == PlanRows(w, m) # {}

\* faulty variant: the plan row written without the allocations of its last group, as a
\* create of the plan followed by separate creates of the allocations would show it
AllocationRowsCutShort(id, groupsRead) ==
    [k \in {<<id, g>> : g \in {x \in DOMAIN groupsRead : \E y \in DOMAIN groupsRead : x < y}}
        |-> groupsRead[k[2]]]

\* allocations: {create: groups.map(group => ({groupId, percentSnapshot: group.defaultPercent}))}
AllocationRows(id, groupsRead) ==
    [k \in {<<id, g>> : g \in DOMAIN groupsRead} |-> groupsRead[k[2]]]

\* the allocations of one plan, as findUnique({include: {allocations}}) returns them
AllocationsOfPlan(id) ==
    [g \in {x \in GroupIds : <<id, x>> \in DOMAIN allocations} |-> allocations[<<id, g>>]]

\* the next id of a table whose rows are never deleted
NextPlanId == Cardinality(plans) + 1

\* where a caller of ensureMonthlyPlanExists goes on once it has the plan id
AfterEnsure(op) ==
    CASE op = "ensureMonthlyPlanExists" -> "done"
      [] op = "updateMonthlyAllocation" -> "upsert"
      [] OTHER -> "readPlan"

Creating == {q \in Procs : req[q].pc \in {"findMany", "create"}}

\* the active groups of a workspace with their defaultPercent, in the current state
ActiveConfig(w) ==
    [g \in {x \in DOMAIN groups : groups[x].workspaceId = w /\ groups[x].isActive}
        |-> groups[g].defaultPercent]

\* ------------------------------------------- requests on the snapshot engine

\* A request enters ensureMonthlyPlanExists(w, m) and runs its findUnique.
Begin(p, op, w, m) ==
    /\ req[p].pc = "idle"
    /\ \/ PlanRows(w, m) # {}
       \/ Cardinality(plans) + Cardinality(Creating) < MaxPlans
    /\ LET id == FindUniquePlan(w, m) IN
        req' = [req EXCEPT ![p] =
                   [Idle EXCEPT !.op = op, !.w = w, !.m = m, !.planId = id,
                                !.pc = IF id # 0 THEN AfterEnsure(op) ELSE "findMany"]]
    /\ fresh' = 0
    /\ UNCHANGED <<groups, categories, plans, allocations>>
    /\ UNCHANGED <<ledgerVars, out>>

\* the dashboard page calls ensureMonthlyPlanExists(workspaceId, yearMonth) directly
EnsureMonthlyPlanExists(p, w, m) == Begin(p, "ensureMonthlyPlanExists", w, m)

GetMonthlyAllocations(p, w, m) == Begin(p, "getMonthlyAllocations", w, m)

\* computeGroupBudgets starts with getMonthlyAllocations(workspaceId, yearMonth)
ComputeGroupBudgets(p, w, m) == Begin(p, "getMonthlyAllocations", w, m)

\* computeMonthSummary: of its three parallel calls only computeGroupBudgets touches the plans
ComputeMonthSummary(p, w, m) == Begin(p, "getMonthlyAllocations", w, m)

\* updateMonthlyGroupAllocation -> updateMonthlyAllocation(workspaceId, yearMonth, groupId, percent)
UpdateMonthlyAllocation(p, w, m) == Begin(p, "updateMonthlyAllocation", w, m)

\* const groups = await prisma.budgetGroup.findMany({where: {workspaceId, isActive: true}})
FindManyGroups(p) ==
    /\ req[p].pc = "findMany"
    /\ req' = [req EXCEPT ![p].groupsRead = GroupsFindMany(req[p].w), ![p].pc = "create"]
    /\ fresh' = p
    /\ UNCHANGED <<groups, categories, plans, allocations>>
    /\ UNCHANGED <<ledgerVars, out>>

\* const plan = await prisma.monthlyBudgetPlan.create({data: {..., allocations: {create}}}):
\* one nested write, the plan row and its allocation rows in one store transaction;
\* a unique-index violation throws (P2002) and nothing in the code catches it
CreatePlan(p) ==
    /\ req[p].pc = "create"
    /\ fresh' = 0
    /\ IF UniqueViolation(req[p].w, req[p].m)
       THEN /\ req' = [req EXCEPT ![p].pc = "failed", ![p].err = "P2002",
                                  ![p].groupsRead = Empty]
            /\ UNCHANGED <<plans, allocations>>
       ELSE LET id == NextPlanId IN
            /\ plans' = plans \cup {[id |-> id, workspaceId |-> req[p].w, yearMonth |-> req[p].m]}
            /\ allocations' = AllocationRows(id, req[p].groupsRead) @@ allocations
            /\ req' = [req EXCEPT ![p].planId = id, ![p].created = TRUE,
                                  ![p].undisturbed = (fresh = p),
                                  ![p].pc = AfterEnsure(req[p].op)]
    /\ UNCHANGED <<groups, categories>>
    /\ UNCHANGED <<ledgerVars, out>>

\* faulty variant: the override also written to the group's defaultPercent
UpsertAllocationAndDefault(p) ==
    /\ req[p].pc = "upsert"
    /\ fresh' = 0
    /\ \E g \in GroupIds, pct \in Percents :
        IF g \notin DOMAIN groups
        THEN /\ req' = [req EXCEPT ![p].pc = "failed", ![p].err = "P2003", ![p].g = g,
                                   ![p].pct = pct]
             /\ UNCHANGED <<allocations, groups>>
        ELSE /\ allocations' = (<<req[p].planId, g>> :> pct) @@ allocations
             /\ groups' = [groups EXCEPT ![g].defaultPercent = pct]
             /\ req' = [req EXCEPT ![p].pc = "done", ![p].g = g, ![p].pct = pct]
    /\ UNCHANGED <<categories, plans>>
    /\ UNCHANGED <<ledgerVars, out>>

\* await prisma.monthlyGroupAllocation.upsert({where: {planId_groupId}, update, create}).
\* groupId and newPercent are first used here, so the model draws them here and keeps
\* them in the request's record; MonthlyGroupAllocation_groupId_fkey rejects a
\* groupId that is no BudgetGroup row (P2003).
UpsertAllocationOf(p, g, pct) ==
    /\ req[p].pc = "upsert"
    /\ fresh' = 0
    /\ IF g \notin DOMAIN groups
       THEN /\ req' = [req EXCEPT ![p].pc = "failed", ![p].err = "P2003", ![p].g = g,
                                  ![p].pct = pct]
            /\ UNCHANGED allocations
       ELSE /\ allocations' = (<<req[p].planId, g>> :> pct) @@ allocations
            /\ req' = [req EXCEPT ![p].pc = "done", ![p].g = g, ![p].pct = pct]
    /\ UNCHANGED <<groups, categories, plans>>
    /\ UNCHANGED <<ledgerVars, out>>

UpsertAllocation(p) == \E g \in GroupIds, pct \in Percents : UpsertAllocationOf(p, g, pct)

\* getMonthlyAllocations: const plan = await prisma.monthlyBudgetPlan.findUnique({where, include});
\* the relation load reads the plan row first
ReadPlan(p) ==
    /\ req[p].pc = "readPlan"
    /\ fresh' = 0
    /\ LET id == FindUniquePlan(req[p].w, req[p].m) IN
        req' = [req EXCEPT ![p].planId = id,
                           ![p].pc = IF id = 0 THEN "done" ELSE "readAllocs"]
    /\ UNCHANGED <<groups, categories, plans, allocations>>
    /\ UNCHANGED <<ledgerVars, out>>

\* ... and then the allocations of that plan: return plan?.allocations ?? []
ReadAllocations(p) ==
    /\ req[p].pc = "readAllocs"
    /\ fresh' = 0
    /\ req' = [req EXCEPT ![p].seen = AllocationsOfPlan(req[p].planId), ![p].pc = "done"]
    /\ UNCHANGED <<groups, categories, plans, allocations>>
    /\ UNCHANGED <<ledgerVars, out>>

\* the call has returned or thrown; the process serves the next request
Return(p) ==
    /\ req[p].pc \in {"done", "failed"}
    /\ fresh' = 0
    /\ req' = [req EXCEPT ![p] = Idle]
    /\ UNCHANGED <<groups, categories, plans, allocations>>
    /\ UNCHANGED <<ledgerVars, out>>

\* ------------------------------------------------ budget configuration store
\* Each action is the write of a server action whose role check has passed; the
\* reads before it (findFirst of the row, max sortOrder) cannot be invalidated,
\* since no row of BudgetGroup or BudgetCategory is deleted or changes workspace.

Absent == -1

CreateBudgetGroup(w) ==
    /\ Cardinality(DOMAIN groups) < MaxGroups
    /\ \E pct \in Percents :
        groups' = (Cardinality(DOMAIN groups) + 1 :>
                     [workspaceId |-> w, defaultPercent |-> pct, isActive |-> TRUE]) @@ groups
    /\ fresh' = 0
    /\ UNCHANGED <<categories, plans, allocations, req>>
    /\ UNCHANGED <<ledgerVars, out>>

\* data is updateGroupSchema = createGroupSchema.partial(): defaultPercent may be absent
UpdateBudgetGroup(w) ==
    /\ \E g \in DOMAIN groups, pct \in Percents \cup {Absent} :
        /\ groups[g].workspaceId = w
        /\ groups' = IF pct = Absent THEN groups
                     ELSE [groups EXCEPT ![g].defaultPercent = pct]
    /\ fresh' = 0
    /\ UNCHANGED <<categories, plans, allocations, req>>
    /\ UNCHANGED <<ledgerVars, out>>

\* faulty variant: the new defaults also written into the snapshots already taken
UpdateGroupPercentagesRetroactive(w) ==
    /\ \E S \in SUBSET GroupIds : \E f \in [S -> Percents] :
        /\ groups' = [g \in DOMAIN groups |->
                        IF g \in S /\ groups[g].workspaceId = w
                        THEN [groups[g] EXCEPT !.defaultPercent = f[g]]
                        ELSE groups[g]]
        /\ allocations' = [k \in DOMAIN allocations |->
                             IF k[2] \in S /\ k[2] \in DOMAIN groups /\ groups[k[2]].workspaceId = w
                             THEN f[k[2]]
                             ELSE allocations[k]]
    /\ fresh' = 0
    /\ UNCHANGED <<categories, plans, req>>
    /\ UNCHANGED <<ledgerVars, out>>

\* prisma.$transaction(percentages.map(p => budgetGroup.updateMany({where: {id, workspaceId}, ...})))
UpdateGroupPercentages(w) ==
    /\ \E S \in SUBSET GroupIds : \E f \in [S -> Percents] :
        groups' = [g \in DOMAIN groups |->
                     IF g \in S /\ groups[g].workspaceId = w
                     THEN [groups[g] EXCEPT !.defaultPercent = f[g]]
                     ELSE groups[g]]
    /\ fresh' = 0
    /\ UNCHANGED <<categories, plans, allocations, req>>
    /\ UNCHANGED <<ledgerVars, out>>

\* faulty variant: the group's row removed
DeleteBudgetGroupHard(w) ==
    /\ \E g \in GroupIds :
        groups' = [x \in {y \in DOMAIN groups : ~(y = g /\ groups[y].workspaceId = w)}
                     |-> groups[x]]
    /\ fresh' = 0
    /\ UNCHANGED <<categories, plans, allocations, req>>
    /\ UNCHANGED <<ledgerVars, out>>

\* prisma.budgetGroup.updateMany({where: {id: groupId, workspaceId}, data: {isActive: false}})
DeleteBudgetGroup(w) ==
    /\ \E g \in GroupIds :
        groups' = [x \in DOMAIN groups |->
                     IF x = g /\ groups[x].workspaceId = w
                     THEN [groups[x] EXCEPT !.isActive = FALSE]
                     ELSE groups[x]]
    /\ fresh' = 0
    /\ UNCHANGED <<categories, plans, allocations, req>>
    /\ UNCHANGED <<ledgerVars, out>>

CreateCategory(w) ==
    /\ Cardinality(DOMAIN categories) < MaxCategories
    /\ \E g \in DOMAIN groups :
        /\ groups[g].workspaceId = w
        /\ categories' = (Cardinality(DOMAIN categories) + 1 :>
                            [workspaceId |-> w, groupId |-> g, isActive |-> TRUE]) @@ categories
    /\ fresh' = 0
    /\ UNCHANGED <<groups, plans, allocations, req>>
    /\ UNCHANGED <<ledgerVars, out>>

\* prisma.budgetCategory.updateMany({where: {id: categoryId, workspaceId}, data: {isActive: false}})
DeleteCategory(w) ==
    /\ \E c \in CategoryIds :
        categories' = [x \in DOMAIN categories |->
                         IF x = c /\ categories[x].workspaceId = w
                         THEN [categories[x] EXCEPT !.isActive = FALSE]
                         ELSE categories[x]]
    /\ fresh' = 0
    /\ UNCHANGED <<groups, plans, allocations, req>>
    /\ UNCHANGED <<ledgerVars, out>>

\* one step of process p: it enters a request, or moves to its next await
Request(p) ==
    \/ \E w \in RequestWorkspaces, m \in Months :
        \/ EnsureMonthlyPlanExists(p, w, m)
        \/ GetMonthlyAllocations(p, w, m)
        \/ ComputeGroupBudgets(p, w, m)
        \/ ComputeMonthSummary(p, w, m)
        \/ UpdateMonthlyAllocation(p, w, m)
    \/ FindManyGroups(p)
    \/ CreatePlan(p)
    \/ UpsertAllocation(p)
    \/ ReadPlan(p)
    \/ ReadAllocations(p)
    \/ Return(p)

\* Requests served one after the other, each interleaved at its awaits with the
\* configuration changes of the workspace.
Next ==
    \/ Request(1)
    \/ \E w \in RequestWorkspaces :
        \/ CreateBudgetGroup(w)
        \/ UpdateBudgetGroup(w)
        \/ UpdateGroupPercentages(w)
        \/ DeleteBudgetGroup(w)
        \/ CreateCategory(w)
        \/ DeleteCategory(w)

Spec == Init /\ [][Next]_vars

\* Concurrent requests on the months of one workspace, whose groups are being set up.
NextRace ==
    \/ \E p \in Procs : Request(p)
    \/ \E w \in RequestWorkspaces : CreateBudgetGroup(w)

SpecRace == Init /\ [][NextRace]_vars

\* ------------------------------------------------------- transaction ledger
\* Each action is the write of a server action whose role check has passed. The
\* findFirst before an update cannot be invalidated: no Transaction row is deleted
\* or changes workspace.

TransactionTypes == {"INCOME", "EXPENSE", "TRANSFER"}

\* installmentsCount: z.number().int().min(2, ...)
MinInstallments == 2

\* createTransactionSchema: status is z.enum(["POSTED", "PLANNED"])
CreateTransaction(w) ==
    /\ Cardinality(DOMAIN transactions) < MaxTransactions
    /\ \E type \in TransactionTypes, status \in {"POSTED", "PLANNED"} :
        transactions' = (Cardinality(DOMAIN transactions) + 1 :>
                           [workspaceId |-> w, type |-> type, status |-> status,
                            installmentPlanId |-> 0, installmentNumber |-> 0]) @@ transactions
    /\ UNCHANGED installmentPlans
    /\ UNCHANGED <<budgetVars, settingsVars, out>>

\* updateTransactionSchema = createTransactionSchema.partial(): every field may be
\* absent; the row is found by {id, workspaceId}, whatever its status, and data is
\* written as given
UpdateTransaction(w) ==
    /\ \E t \in DOMAIN transactions :
        /\ transactions[t].workspaceId = w
        /\ \E type \in TransactionTypes \cup {"absent"}, status \in {"POSTED", "PLANNED", "absent"} :
            transactions' = [transactions EXCEPT
                ![t].type = IF type = "absent" THEN @ ELSE type,
                ![t].status = IF status = "absent" THEN @ ELSE status]
    /\ UNCHANGED installmentPlans
    /\ UNCHANGED <<budgetVars, settingsVars, out>>

\* soft delete: prisma.transaction.update({where: {id}, data: {status: "VOID"}})
DeleteTransaction(w) ==
    /\ \E t \in DOMAIN transactions :
        /\ transactions[t].workspaceId = w
        /\ transactions' = [transactions EXCEPT ![t].status = "VOID"]
    /\ UNCHANGED installmentPlans
    /\ UNCHANGED <<budgetVars, settingsVars, out>>

\* postInstallment -> markInstallmentAsPosted(transactionId, workspaceId):
\* updateMany({where: {id, workspaceId, status: "PLANNED"}, data: {status: "POSTED"}})
PostInstallment(w) ==
    /\ \E t \in TransactionIds :
        transactions' = [x \in DOMAIN transactions |->
                           IF x = t /\ transactions[x].workspaceId = w
                                    /\ transactions[x].status = "PLANNED"
                           THEN [transactions[x] EXCEPT !.status = "POSTED"]
                           ELSE transactions[x]]
    /\ UNCHANGED installmentPlans
    /\ UNCHANGED <<budgetVars, settingsVars, out>>

\* createInstallment -> createInstallmentPlan: the plan row and its installmentsCount
\* PLANNED EXPENSE transactions, numbered from 1, in one prisma.$transaction
CreateInstallment(w) ==
    /\ Cardinality(DOMAIN installmentPlans) < MaxInstallmentPlans
    /\ \E n \in MinInstallments..(MaxTransactions - Cardinality(DOMAIN transactions)) :
        LET id == Cardinality(DOMAIN installmentPlans) + 1
            base == Cardinality(DOMAIN transactions)
        IN  /\ installmentPlans' = (id :> [workspaceId |-> w, isActive |-> TRUE,
                                           installmentsCount |-> n]) @@ installmentPlans
            /\ transactions' = [i \in (base + 1)..(base + n) |->
                                  [workspaceId |-> w, type |-> "EXPENSE", status |-> "PLANNED",
                                   installmentPlanId |-> id, installmentNumber |-> i - base]]
                               @@ transactions
    /\ UNCHANGED <<budgetVars, settingsVars, out>>

\* faulty variant: every transaction of the plan that is not VOID yet is voided
CancelInstallmentPlanVoidsPosted(w, planId) ==
    /\ installmentPlans' = [x \in DOMAIN installmentPlans |->
                              IF x = planId /\ installmentPlans[x].workspaceId = w
                              THEN [installmentPlans[x] EXCEPT !.isActive = FALSE]
                              ELSE installmentPlans[x]]
    /\ transactions' = [x \in DOMAIN transactions |->
                          IF transactions[x].installmentPlanId = planId
                          THEN [transactions[x] EXCEPT !.status = "VOID"]
                          ELSE transactions[x]]
    /\ UNCHANGED <<budgetVars, settingsVars, out>>

\* cancelInstallmentPlan, one prisma.$transaction of
\*   installmentPlan.updateMany({where: {id: planId, workspaceId}, data: {isActive: false}})
\*   transaction.updateMany({where: {installmentPlanId: planId, status: "PLANNED"}, data: {status: "VOID"}})
CancelInstallmentPlanOf(w, planId) ==
    /\ installmentPlans' = [x \in DOMAIN installmentPlans |->
                              IF x = planId /\ installmentPlans[x].workspaceId = w
                              THEN [installmentPlans[x] EXCEPT !.isActive = FALSE]
                              ELSE installmentPlans[x]]
    /\ transactions' = [x \in DOMAIN transactions |->
                          IF transactions[x].installmentPlanId = planId
                             /\ transactions[x].status = "PLANNED"
                          THEN [transactions[x] EXCEPT !.status = "VOID"]
                          ELSE transactions[x]]
    /\ UNCHANGED <<budgetVars, settingsVars, out>>

CancelInstallmentPlan(w) ==
    \E planId \in InstallmentPlanIds : CancelInstallmentPlanOf(w, planId)

NextLedger ==
    \E w \in Workspaces :
        \/ CreateTransaction(w)
        \/ UpdateTransaction(w)
        \/ DeleteTransaction(w)
        \/ PostInstallment(w)
        \/ CreateInstallment(w)
        \/ CancelInstallmentPlan(w)

SpecLedger == Init /\ [][NextLedger]_vars

\* ------------------------------------------------------------ calendar months
\* lib/date.ts on date-fns. An instant is <<day, ms>>: the day counted from the first
\* of January of EpochYear in the server's time zone, and the millisecond of that day
\* (Transaction.date is TIMESTAMP(3)).

EpochYear == 2024
MsPerDay == 86400000

\* parseMonthKey: parseISO(`${monthKey}-01`), as <<year, month>>
ParseMonthKey(m) ==
    CASE m = "2024-03" -> <<2024, 3>>
      [] m = "2024-04" -> <<2024, 4>>

IsLeapYear(y) == (y % 4 = 0 /\ y % 100 # 0) \/ y % 400 = 0

DaysInMonth(y, mo) ==
    CASE mo = 2 -> IF IsLeapYear(y) THEN 29 ELSE 28
      [] mo \in {4, 6, 9, 11} -> 30
      [] OTHER -> 31

RECURSIVE DaysBefore(_, _)
\* the days of year y before the first of month mo
DaysBefore(y, mo) == IF mo = 1 THEN 0 ELSE DaysBefore(y, mo - 1) + DaysInMonth(y, mo - 1)

\* startOfMonth(date): the first day, 00:00:00.000
StartOfMonth(ym) == <<DaysBefore(ym[1], ym[2]), 0>>

\* faulty variant: the last day of the month at 00:00:00.000
EndOfMonthMidnight(ym) == <<DaysBefore(ym[1], ym[2]) + DaysInMonth(ym[1], ym[2]) - 1, 0>>

\* endOfMonth(date): the last day, 23:59:59.999
EndOfMonth(ym) == <<DaysBefore(ym[1], ym[2]) + DaysInMonth(ym[1], ym[2]) - 1, MsPerDay - 1>>

\* getMonthDateRange(monthKey)
GetMonthDateRange(m) ==
    [start |-> StartOfMonth(ParseMonthKey(m)), end |-> EndOfMonth(ParseMonthKey(m))]

\* a <= b on instants
NotAfter(a, b) == a[1] < b[1] \/ (a[1] = b[1] /\ a[2] <= b[2])

\* the instant before and the instant after an instant
InstantBefore(d) == IF d[2] = 0 THEN <<d[1] - 1, MsPerDay - 1>> ELSE <<d[1], d[2] - 1>>
InstantAfter(d) == IF d[2] = MsPerDay - 1 THEN <<d[1] + 1, 0>> ELSE <<d[1], d[2] + 1>>

\* ------------------------------------------------------- aggregation queries
\* domain/budget.ts. Amounts are DECIMAL(12,2), counted in cents; the store sums
\* them exactly.

RECURSIVE SumAmount(_)
\* SUM(amount) over the rows with the ids in S
SumAmount(S) ==
    IF S = {} THEN 0
    ELSE LET t == CHOOSE x \in S : TRUE IN transactions[t].amount + SumAmount(S \ {t})

\* where: {workspaceId, type, status: "POSTED", date: {gte: start, lte: end}}
PostedInMonth(w, type, m) ==
    LET range == GetMonthDateRange(m) IN
    {t \in DOMAIN transactions :
        /\ transactions[t].workspaceId = w
        /\ transactions[t].type = type
        /\ transactions[t].status = "POSTED"
        /\ NotAfter(range.start, transactions[t].date)
        /\ NotAfter(transactions[t].date, range.end)}

\* _sum.amount of an aggregate over no row is null
NullSum == -1

\* prisma.transaction.aggregate({where, _sum: {amount: true}})
AggregateSum(S) == IF S = {} THEN NullSum ELSE SumAmount(S)

\* return result._sum.amount?.toNumber() ?? 0
IncomeTotal(w, m) ==
    LET sum == AggregateSum(PostedInMonth(w, "INCOME", m)) IN IF sum = NullSum THEN 0 ELSE sum

ExpenseTotal(w, m) ==
    LET sum == AggregateSum(PostedInMonth(w, "EXPENSE", m)) IN IF sum = NullSum THEN 0 ELSE sum

\* no category: categoryId is null
NoCategory == 0

\* prisma.transaction.groupBy({by: ["categoryId"], where: {..., categoryId: {not: null}}, _sum}):
\* categoryId -> _sum.amount
SpendingByCategory(w, m) ==
    LET rows == {t \in PostedInMonth(w, "EXPENSE", m) : transactions[t].categoryId # NoCategory}
    IN  [c \in {transactions[t].categoryId : t \in rows} |->
            AggregateSum({t \in rows : transactions[t].categoryId = c})]

\* prisma.budgetCategory.findMany({where: {workspaceId}, select: {id, groupId}}) as the
\* map categoryToGroup
CategoryToGroup(w) ==
    [c \in {x \in DOMAIN categories : categories[x].workspaceId = w} |-> categories[c].groupId]

RECURSIVE AddSpending(_, _, _, _)
\* the loop over the items of the groupBy: an item whose category is not in the map is
\* skipped, the others are added to their group's entry
AddSpending(items, spending, categoryToGroup, groupSpending) ==
    IF items = {} THEN groupSpending
    ELSE LET c == CHOOSE x \in items : TRUE
             rest == items \ {c}
         IN  IF c \notin DOMAIN categoryToGroup
             THEN AddSpending(rest, spending, categoryToGroup, groupSpending)
             ELSE LET g == categoryToGroup[c]
                      current == IF g \in DOMAIN groupSpending THEN groupSpending[g] ELSE 0
                  IN  AddSpending(rest, spending, categoryToGroup,
                                  (g :> current + spending[c]) @@ groupSpending)

\* computeSpendingByGroup(workspaceId, yearMonth): groupId -> spent
SpendingByGroup(w, m) ==
    LET spending == SpendingByCategory(w, m) IN
    AddSpending(DOMAIN spending, spending, CategoryToGroup(w), Empty)

ComputeIncomeTotal(w, m) ==
    /\ out' = [fn |-> "computeIncomeTotal", w |-> w, m |-> m, result |-> IncomeTotal(w, m)]
    /\ UNCHANGED <<budgetVars, ledgerVars>>

ComputeExpenseTotal(w, m) ==
    /\ out' = [fn |-> "computeExpenseTotal", w |-> w, m |-> m, result |-> ExpenseTotal(w, m)]
    /\ UNCHANGED <<budgetVars, ledgerVars>>

ComputeSpendingByGroup(w, m) ==
    /\ out' = [fn |-> "computeSpendingByGroup", w |-> w, m |-> m, result |-> SpendingByGroup(w, m)]
    /\ UNCHANGED <<budgetVars, ledgerVars>>

\* The ledgers the queries are run on: up to MaxRows rows, row i of amount
\* LedgerAmounts[i], of any workspace, type and status, dated at a boundary of
\* March 2024, with no category or any category.
LedgerAmounts == <<100, 250, 400>>

\* the categories of LedgerCategories
LedgerCategoryIds == 1..2

LedgerDates ==
    LET range == GetMonthDateRange("2024-03") IN
    {InstantBefore(range.start), range.start, range.end, InstantAfter(range.end)}

LedgerRows(i) ==
    [workspaceId : Workspaces, type : TransactionTypes, status : {"POSTED", "PLANNED", "VOID"},
     installmentPlanId : {0}, installmentNumber : {0},
     amount : {LedgerAmounts[i]}, date : LedgerDates,
     categoryId : {NoCategory} \cup LedgerCategoryIds]

Ledgers ==
    UNION {{f \in [1..n -> UNION {LedgerRows(i) : i \in 1..n}] :
                \A i \in 1..n : f[i] \in LedgerRows(i)} : n \in 0..MaxRows}

\* the second group is an inactive group of w1 or a group of w2; the first category
\* is in group 1, the second, inactive, in either group, each in its group's workspace
LedgerGroups ==
    {(1 :> [workspaceId |-> "w1", defaultPercent |-> 50, isActive |-> TRUE])
        @@ (2 :> g2) :
        g2 \in {[workspaceId |-> "w1", defaultPercent |-> 30, isActive |-> FALSE],
                [workspaceId |-> "w2", defaultPercent |-> 30, isActive |-> TRUE]}}

LedgerCategories(gs) ==
    {(1 :> [workspaceId |-> "w1", groupId |-> 1, isActive |-> TRUE])
        @@ (2 :> [workspaceId |-> gs[g].workspaceId, groupId |-> g, isActive |-> FALSE]) :
        g \in 1..2}

InitAgg ==
    /\ groups \in LedgerGroups
    /\ categories \in LedgerCategories(groups)
    /\ plans = {}
    /\ allocations = Empty
    /\ req = [p \in Procs |-> Idle]
    /\ fresh = 0
    /\ transactions \in Ledgers
    /\ installmentPlans = Empty
    /\ accounts = Empty
    /\ members = Empty
    /\ out = NoCall

NextAgg ==
    \E w \in Workspaces, m \in Months :
        \/ ComputeIncomeTotal(w, m)
        \/ ComputeExpenseTotal(w, m)
        \/ ComputeSpendingByGroup(w, m)

SpecAgg == InitAgg /\ [][NextAgg]_vars

\* -------------------------------------------------------- budget summaries
\* computeGroupBudgets after its getMonthlyAllocations has returned the allocations
\* (req[p].seen). budgetAmount is incomeTotal * percent / 100: the three amounts of a
\* summary are counted in hundredths of a cent, in which the quotient is exact.

\* const incomeTotal = await computeIncomeTotal(workspaceId, yearMonth)
GroupBudgetsIncome(p) ==
    /\ req[p].pc = "done" /\ req[p].op \in {"getMonthlyAllocations", "computeMonthSummary"}
    /\ req' = [req EXCEPT ![p].incomeTotal = IncomeTotal(req[p].w, req[p].m),
                          ![p].pc = "spending"]
    /\ fresh' = 0
    /\ UNCHANGED <<groups, categories, plans, allocations>>
    /\ UNCHANGED <<ledgerVars, out>>

\* faulty variant: a remaining amount that stops at zero
SummariesClamped(allocs, incomeTotal, spendingByGroup) ==
    [g \in DOMAIN allocs |->
        LET budgetAmount == incomeTotal * allocs[g]
            spentAmount == IF g \in DOMAIN spendingByGroup THEN 100 * spendingByGroup[g] ELSE 0
        IN  [percentAllocation |-> allocs[g], budgetAmount |-> budgetAmount,
             spentAmount |-> spentAmount,
             remainingAmount |-> IF budgetAmount < spentAmount THEN 0
                                 ELSE budgetAmount - spentAmount]]

\* allocations.map(allocation => ({groupId, percentAllocation, budgetAmount, spentAmount,
\* remainingAmount})), keyed by groupId
Summaries(allocs, incomeTotal, spendingByGroup) ==
    [g \in DOMAIN allocs |->
        LET budgetAmount == incomeTotal * allocs[g]
            spentAmount == IF g \in DOMAIN spendingByGroup THEN 100 * spendingByGroup[g] ELSE 0
        IN  [percentAllocation |-> allocs[g], budgetAmount |-> budgetAmount,
             spentAmount |-> spentAmount,
             remainingAmount |-> budgetAmount - spentAmount]]

\* const spendingByGroup = await computeSpendingByGroup(workspaceId, yearMonth);
\* return summaries
GroupBudgetsSummaries(p) ==
    /\ req[p].pc = "spending"
    /\ out' = [fn |-> "computeGroupBudgets", w |-> req[p].w, m |-> req[p].m,
               result |-> Summaries(req[p].seen, req[p].incomeTotal,
                                    SpendingByGroup(req[p].w, req[p].m))]
    /\ req' = [req EXCEPT ![p] = Idle]
    /\ fresh' = 0
    /\ UNCHANGED <<groups, categories, plans, allocations>>
    /\ UNCHANGED ledgerVars

\* The ledgers the summaries are computed on: rows of w1, row i of amount
\* SummaryAmounts[i], income or expense, posted or planned, dated at the first instant
\* of March or of April 2024, with no category or one of two categories.
SummaryAmounts == <<100000, 60000, 25000>>

SummaryRows(i) ==
    [workspaceId : RequestWorkspaces, type : {"INCOME", "EXPENSE"}, status : {"POSTED", "PLANNED"},
     installmentPlanId : {0}, installmentNumber : {0},
     amount : {SummaryAmounts[i]},
     date : {GetMonthDateRange(m).start : m \in Months},
     categoryId : {NoCategory} \cup LedgerCategoryIds]

SummaryLedgers ==
    UNION {{f \in [1..n -> UNION {SummaryRows(i) : i \in 1..n}] :
                \A i \in 1..n : f[i] \in SummaryRows(i)} : n \in 0..MaxRows}

\* two active groups of w1 at 50 and 30 percent, one category in each
InitSummary ==
    /\ groups = (1 :> [workspaceId |-> "w1", defaultPercent |-> 50, isActive |-> TRUE])
                @@ (2 :> [workspaceId |-> "w1", defaultPercent |-> 30, isActive |-> TRUE])
    /\ categories = (1 :> [workspaceId |-> "w1", groupId |-> 1, isActive |-> TRUE])
                    @@ (2 :> [workspaceId |-> "w1", groupId |-> 2, isActive |-> TRUE])
    /\ plans = {}
    /\ allocations = Empty
    /\ req = [p \in Procs |-> Idle]
    /\ fresh = 0
    /\ transactions \in SummaryLedgers
    /\ installmentPlans = Empty
    /\ accounts = Empty
    /\ members = Empty
    /\ out = NoCall

NextSummary ==
    \/ \E w \in RequestWorkspaces, m \in Months : ComputeGroupBudgets(1, w, m)
    \/ FindManyGroups(1)
    \/ CreatePlan(1)
    \/ ReadPlan(1)
    \/ ReadAllocations(1)
    \/ GroupBudgetsIncome(1)
    \/ GroupBudgetsSummaries(1)

SpecSummary == InitSummary /\ [][NextSummary]_vars

\* ------------------------------------------------------ numbers of the runtime
\* A JavaScript number is an IEEE 754 double. The model holds a non-negative double
\* as the natural number value * 2^FracBits, written in base Base, least significant
\* digit first (<<>> is zero), and rounds every result to 53 significant bits, ties
\* to even, as the arithmetic of the runtime does. Every quotient formed below is
\* zero or at least 2^-8, so that its double is a multiple of 2^-FracBits.

Base == 32768
FracBits == 60
GuardBits == 2
Mantissa == 53

RECURSIVE BigOfInt(_)
BigOfInt(n) == IF n = 0 THEN <<>> ELSE <<n % Base>> \o BigOfInt(n \div Base)

RECURSIVE BigToInt(_)
BigToInt(a) == IF a = <<>> THEN 0 ELSE a[1] + Base * BigToInt(Tail(a))

RECURSIVE Norm(_)
\* without leading zero digits
Norm(a) ==
    IF a = <<>> THEN <<>>
    ELSE IF a[Len(a)] = 0 THEN Norm(SubSeq(a, 1, Len(a) - 1)) ELSE a

Digit1(a) == IF a = <<>> THEN 0 ELSE a[1]
Rest(a) == IF a = <<>> THEN <<>> ELSE Tail(a)

RECURSIVE AddCarry(_, _, _)
AddCarry(a, b, c) ==
    IF a = <<>> /\ b = <<>> THEN BigOfInt(c)
    ELSE LET x == Digit1(a) + Digit1(b) + c
         IN  <<x % Base>> \o AddCarry(Rest(a), Rest(b), x \div Base)

BigAdd(a, b) == AddCarry(a, b, 0)

RECURSIVE SubBorrow(_, _, _)
SubBorrow(a, b, c) ==
    IF a = <<>> THEN <<>>
    ELSE LET x == a[1] - Digit1(b) - c
         IN  <<(x + Base) % Base>> \o SubBorrow(Tail(a), Rest(b), IF x < 0 THEN 1 ELSE 0)

\* a - b, for a >= b
BigSub(a, b) == Norm(SubBorrow(a, b, 0))

RECURSIVE LessFrom(_, _, _)
LessFrom(a, b, i) ==
    IF i = 0 THEN FALSE
    ELSE IF a[i] # b[i] THEN a[i] < b[i] ELSE LessFrom(a, b, i - 1)

BigLess(a, b) == IF Len(a) # Len(b) THEN Len(a) < Len(b) ELSE LessFrom(a, b, Len(a))

RECURSIVE MulCarry(_, _, _)
MulCarry(a, k, c) ==
    IF a = <<>> THEN BigOfInt(c)
    ELSE LET x == a[1] * k + c IN <<x % Base>> \o MulCarry(Tail(a), k, x \div Base)

\* a * k, for 0 <= k <= Base
BigMulSmall(a, k) == IF k = 0 THEN <<>> ELSE MulCarry(a, k, 0)

RECURSIVE DivDigits(_, _)
\* quotient digits and remainder of a by k, for 0 < k <= Base
DivDigits(a, k) ==
    IF a = <<>> THEN [q |-> <<>>, r |-> 0]
    ELSE LET hi == DivDigits(Tail(a), k)
             x == hi.r * Base + a[1]
         IN  [q |-> <<x \div k>> \o hi.q, r |-> x % k]

BigDivSmall(a, k) == LET d == DivDigits(a, k) IN [q |-> Norm(d.q), r |-> d.r]

RECURSIVE Shl(_, _)
\* a * 2^n
Shl(a, n) ==
    IF a = <<>> THEN <<>>
    ELSE IF n >= 15 THEN <<0>> \o Shl(a, n - 15) ELSE BigMulSmall(a, 2^n)

RECURSIVE Shr(_, _)
\* a \div 2^n
Shr(a, n) ==
    IF a = <<>> THEN <<>>
    ELSE IF n >= 15 THEN Shr(Tail(a), n - 15) ELSE BigDivSmall(a, 2^n).q

RECURSIVE SmallBitLen(_)
SmallBitLen(x) == IF x = 0 THEN 0 ELSE 1 + SmallBitLen(x \div 2)

BitLen(a) == IF a = <<>> THEN 0 ELSE 15 * (Len(a) - 1) + SmallBitLen(a[Len(a)])

\* the natural number a, plus a fraction strictly between 0 and 1 if sticky, rounded
\* to Mantissa significant bits, to nearest and ties to even
RoundSig(a, sticky) ==
    LET n == BitLen(a) - Mantissa IN
    IF n <= 0 THEN a
    ELSE LET m == Shr(a, n)
             low == BigSub(a, Shl(m, n))
             half == Shl(<<1>>, n - 1)
             up == BigLess(half, low) \/ (low = half /\ (sticky \/ m[1] % 2 = 1))
         IN  Shl(IF up THEN BigAdd(m, <<1>>) ELSE m, n)

\* the double nearest to a / k
RoundQuotient(a, k) ==
    LET d == BigDivSmall(Shl(a, GuardBits), k) IN Shr(RoundSig(d.q, d.r # 0), GuardBits)

\* the number literal n / k of the source or of a request, n and k small naturals
FlOfRatio(n, k) == RoundQuotient(Shl(BigOfInt(n), FracBits), k)
FlOfInt(n) == FlOfRatio(n, 1)

\* x * k, x / k, x + y and |x - y| of the runtime
FlMul(x, k) == RoundQuotient(BigMulSmall(x, k), 1)
FlDiv(x, k) == RoundQuotient(x, k)
FlAdd(x, y) == RoundQuotient(BigAdd(x, y), 1)
FlAbsDiff(x, y) == RoundQuotient(IF BigLess(x, y) THEN BigSub(y, x) ELSE BigSub(x, y), 1)

\* Math.floor(x) and Math.round(x), for x >= 0
MathFloor(x) == BigToInt(Shr(x, FracBits))
MathRound(x) == BigToInt(Shr(BigAdd(x, Shl(<<1>>, FracBits - 1)), FracBits))

\* ------------------------------------------------------------ money utilities
\* lib/currency.ts and validatePercentages of domain/budget.ts.

\* toCents(amount): Math.round(amount * 100)
ToCents(amount) == MathRound(FlMul(amount, 100))

\* fromCents(cents): cents / 100
FromCents(cents) == FlOfRatio(cents, 100)

\* faulty variant: every part the base amount, the remainder dropped
DistributeEven(totalAmount, parts) ==
    IF parts < 0 THEN [error |-> "RangeError", amounts |-> <<>>]
    ELSE IF parts = 0 THEN [error |-> "none", amounts |-> <<>>]
    ELSE LET baseAmount == FlDiv(FlOfInt(MathFloor(FlDiv(FlMul(totalAmount, 100), parts))), 100)
         IN  [error |-> "none", amounts |-> [i \in 1..parts |-> baseAmount]]

\* distributeAmount(totalAmount, parts), totalAmount >= 0. Array(parts) throws a
\* RangeError for a negative length; for parts = 0 the array is empty, the remainder
\* is NaN and the empty array is returned.
Distribute(totalAmount, parts) ==
    IF parts < 0 THEN [error |-> "RangeError", amounts |-> <<>>]
    ELSE IF parts = 0 THEN [error |-> "none", amounts |-> <<>>]
    ELSE LET baseAmount == FlDiv(FlOfInt(MathFloor(FlDiv(FlMul(totalAmount, 100), parts))), 100)
             totalCentsSoFar == MathRound(FlMul(baseAmount, 100)) * parts
             totalCentsNeeded == MathRound(FlMul(totalAmount, 100))
             remainder == totalCentsNeeded - totalCentsSoFar
             last == FlDiv(FlOfInt(MathRound(FlMul(FlAdd(baseAmount, FlOfRatio(remainder, 100)),
                                                   100))), 100)
         IN  [error |-> "none",
              amounts |-> [i \in 1..parts |->
                              IF i = parts /\ remainder # 0 THEN last ELSE baseAmount]]

RECURSIVE Reduce(_, _)
\* percentages.reduce((sum, p) => sum + p, 0) from the accumulator sum on
Reduce(percentages, sum) ==
    IF percentages = <<>> THEN sum
    ELSE Reduce(Tail(percentages), FlAdd(sum, Head(percentages)))

\* validatePercentages(percentages): [valid, total]
Validate(percentages) ==
    LET total == Reduce(percentages, <<>>) IN
    [valid |-> BigLess(FlAbsDiff(total, FlOfInt(100)), FlOfRatio(1, 100)),
     total |-> FlDiv(FlOfInt(MathRound(FlMul(total, 100))), 100)]

\* Each behaviour is one call of a utility. The amounts passed are whole cents, from 0
\* to MaxCents and 100.00; the numbers of parts run from -1 to MaxParts.
CentsValues == 0..MaxCents \cup {10000}
PartsValues == -1..MaxParts

DistributeAmount(cents, parts) ==
    /\ out = NoCall
    /\ out' = [fn |-> "distributeAmount", cents |-> cents, parts |-> parts,
               result |-> Distribute(FromCents(cents), parts)]
    /\ UNCHANGED <<budgetVars, ledgerVars>>

\* the percentages passed have two decimals; they are given in hundredths
PercentValues == {1, 2000, 2500, 3000, 4999, 5000, 5001}

ValidatePercentages(hundredths) ==
    /\ out = NoCall
    /\ out' = [fn |-> "validatePercentages", hundredths |-> hundredths,
               result |-> Validate([i \in 1..Len(hundredths) |-> FromCents(hundredths[i])])]
    /\ UNCHANGED <<budgetVars, ledgerVars>>

NextMoney ==
    \/ \E cents \in CentsValues, parts \in PartsValues : DistributeAmount(cents, parts)
    \/ \E n \in 0..MaxPercentages : \E hundredths \in [1..n -> PercentValues] :
            ValidatePercentages(hundredths)

SpecMoney == Init /\ [][NextMoney]_vars

\* ------------------------------------------------------------------ claims

\* process p takes this step
StepOf(p) == req'[p] # req[p]

\* the groups that have an allocation in plan id, before and after the step
GroupsIn(id) == {g \in GroupIds : <<id, g>> \in DOMAIN allocations}
GroupsInAfter(id) == {g \in GroupIds : <<id, g>> \in DOMAIN allocations'}

\* the allocations of plan id after the step
AllocationsAfter(id) ==
    [g \in {x \in GroupIds : <<id, x>> \in DOMAIN allocations'} |-> allocations'[<<id, g>>]]

\* C1: of concurrent ensureMonthlyPlanExists(w, m) calls for a month without a plan,
\* none fails: no call ever ends with the unique-constraint conflict (P2002).
C1_NoCallSurfacesConflict == \A p \in Procs : req[p].err # "P2002"

\* C2: in every reachable state there is at most one MonthlyBudgetPlan row per
\* (workspaceId, yearMonth).
C2_OnePlanPerMonth ==
    \A a, b \in plans :
        (a.workspaceId = b.workspaceId /\ a.yearMonth = b.yearMonth) => a = b

\* a second creation of the same month was attempted and rejected, the first one stored
C2_Witness ==
    \E p \in Procs : req[p].err = "P2002" /\ PlanRows(req[p].w, req[p].m) # {}

\* C3: no step removes an allocation, and a step changes the percentSnapshot of an
\* allocation only if it is the upsert of an updateMonthlyAllocation call for that
\* very plan and group; so no change of the configuration alters a snapshot.
C3_SnapshotsFrozen ==
    [][\A k \in DOMAIN allocations :
          /\ k \in DOMAIN allocations'
          /\ allocations'[k] # allocations[k] =>
                \E p \in Procs :
                    /\ req[p].op = "updateMonthlyAllocation"
                    /\ req[p].pc = "upsert" /\ req'[p].pc = "done"
                    /\ k = <<req[p].planId, req'[p].g>>
                    /\ req[p].planId = FindUniquePlan(req[p].w, req[p].m)]_vars

\* a plan whose snapshot is the configuration of the instant it was created, kept
\* while the group's defaultPercent has been changed since
C3_Witness ==
    \E p \in Procs :
        /\ req[p].created /\ req[p].undisturbed
        /\ \E g \in DOMAIN req[p].groupsRead :
            /\ allocations[<<req[p].planId, g>>] = req[p].groupsRead[g]
            /\ groups[g].defaultPercent # req[p].groupsRead[g]

\* C4: the groups with an allocation in a plan are, from the plan's creation on,
\* the groups that were active in its workspace when the plan row was inserted.
C4_AllocationsAreGroupsActiveAtCreation ==
    [][\A pl \in plans' :
          IF pl \in plans
          THEN GroupsInAfter(pl.id) = GroupsIn(pl.id)
          ELSE GroupsInAfter(pl.id) = DOMAIN ActiveConfig(pl.workspaceId)]_vars

\* C5: no step removes or replaces a plan row, and a call of ensureMonthlyPlanExists(w, m)
\* made when the plan of (w, m) exists returns that plan's id and writes nothing.
C5_EnsureIdempotent ==
    [][/\ \A pl \in plans : pl \in plans'
       /\ \A p \in Procs :
            (req[p].pc = "idle" /\ req'[p].pc # "idle" /\ PlanRows(req'[p].w, req'[p].m) # {}) =>
                /\ \A pl \in PlanRows(req'[p].w, req'[p].m) : req'[p].planId = pl.id
                /\ req'[p].pc = AfterEnsure(req'[p].op)
                /\ plans' = plans /\ allocations' = allocations]_vars

\* a later call has returned the id of a plan stored before it, both months having plans
C5_Witness ==
    \E p \in Procs :
        /\ req[p].pc = "done" /\ req[p].op = "ensureMonthlyPlanExists" /\ ~req[p].created
        /\ req[p].planId # 0
        /\ req[p].planId = FindUniquePlan(req[p].w, req[p].m)
        /\ Cardinality(plans) = 2

\* C6: a plan created by a call that no other operation interleaves between its read
\* of the groups and its insert has exactly one allocation per group active at that
\* moment, each with that group's defaultPercent of that moment.
C6_SnapshotCopiesDefaults ==
    [][\A p \in Procs :
          (req[p].pc = "create" /\ fresh = p /\ StepOf(p) /\ req'[p].pc # "failed") =>
              /\ plans' = plans \cup {[id |-> req'[p].planId, workspaceId |-> req[p].w,
                                        yearMonth |-> req[p].m]}
              /\ req'[p].planId \notin {pl.id : pl \in plans}
              /\ AllocationsAfter(req'[p].planId) = ActiveConfig(req[p].w)]_vars

\* two months of one workspace, the later one created after a change of a default:
\* it carries the new default, the earlier one the old
C6_Witness ==
    \E p \in Procs : \E pl \in plans : \E g \in DOMAIN req[p].groupsRead :
        /\ req[p].created /\ req[p].undisturbed
        /\ pl.workspaceId = req[p].w /\ pl.id < req[p].planId
        /\ <<pl.id, g>> \in DOMAIN allocations
        /\ allocations[<<req[p].planId, g>>] = groups[g].defaultPercent
        /\ allocations[<<pl.id, g>>] # groups[g].defaultPercent

\* C7: no step of an updateMonthlyAllocation(w, m, g, p) call changes a BudgetGroup
\* or an allocation of another plan; its upsert sets the allocation (plan of (w, m), g)
\* to p and changes no other allocation; the rows it adds are rows of the plan of (w, m).
C7_OverrideThisMonthOnly ==
    [][\A p \in Procs :
          (StepOf(p) /\ "updateMonthlyAllocation" \in {req[p].op, req'[p].op}) =>
              LET r == IF req[p].pc = "idle" THEN req'[p] ELSE req[p]
                  mine == {pl.id : pl \in {x \in plans' : x.workspaceId = r.w /\ x.yearMonth = r.m}}
                  upsert == req[p].pc = "upsert" /\ req'[p].pc = "done"
                  key == <<req[p].planId, req'[p].g>>
              IN  /\ groups' = groups
                  /\ \A k \in DOMAIN allocations :
                        /\ k \in DOMAIN allocations'
                        /\ allocations'[k] # allocations[k] => (upsert /\ k = key)
                  /\ \A k \in DOMAIN allocations' \ DOMAIN allocations : k[1] \in mine
                  /\ upsert => /\ key \in DOMAIN allocations'
                               /\ allocations'[key] = req'[p].pct
                               /\ key[1] \in mine
                               /\ DOMAIN allocations' = DOMAIN allocations \cup {key}]_vars

\* an override of one month in place: the group's default and the same group's
\* allocation in the other month both differ from it
C7_Witness ==
    \E p \in Procs : \E pl \in plans :
        /\ req[p].pc = "done" /\ req[p].op = "updateMonthlyAllocation"
        /\ allocations[<<req[p].planId, req[p].g>>] = req[p].pct
        /\ groups[req[p].g].defaultPercent # req[p].pct
        /\ pl.id # req[p].planId
        /\ <<pl.id, req[p].g>> \in DOMAIN allocations
        /\ allocations[<<pl.id, req[p].g>>] # req[p].pct

\* C8: the rows a creation inserts are all stored as soon as its plan row is, and a
\* reader that finds the plan row reads all of them.
C8_NoPartialSnapshot ==
    \A q \in Procs :
        req[q].created =>
            /\ \A g \in DOMAIN req[q].groupsRead : <<req[q].planId, g>> \in DOMAIN allocations
            /\ \A p \in Procs :
                (req[p].pc = "done" /\ req[p].op = "getMonthlyAllocations"
                    /\ req[p].planId = req[q].planId) =>
                        DOMAIN req[q].groupsRead \subseteq DOMAIN req[p].seen

\* a reader has read the plan of a request that created it and is still running
C8_Witness ==
    \E p, q \in Procs :
        /\ p # q
        /\ req[q].created /\ req[q].pc \in {"upsert", "readPlan", "readAllocs"}
        /\ Cardinality(DOMAIN req[q].groupsRead) = 2
        /\ req[p].pc = "done" /\ req[p].op = "getMonthlyAllocations"
        /\ req[p].planId = req[q].planId
        /\ DOMAIN req[p].seen = DOMAIN req[q].groupsRead

\* C9: the allocations stored with a new plan row are the active groups' defaultPercent
\* values of the instant the row is inserted.
C9_SnapshotIsConfigAtInsert ==
    [][\A pl \in plans' \ plans :
          AllocationsAfter(pl.id) = ActiveConfig(pl.workspaceId)]_vars

\* C10: every change of a transaction's status is PLANNED -> POSTED, PLANNED -> VOID
\* or POSTED -> VOID; VOID is terminal and POSTED never returns to PLANNED.
C10_StatusTransitions ==
    [][\A t \in DOMAIN transactions :
          transactions'[t].status # transactions[t].status =>
              <<transactions[t].status, transactions'[t].status>> \in
                  {<<"PLANNED", "POSTED">>, <<"PLANNED", "VOID">>, <<"POSTED", "VOID">>}]_vars

RECURSIVE MonthOfDay(_, _)
\* the calendar month of EpochYear that day number day falls in, counting from month mo
MonthOfDay(day, mo) ==
    IF day < DaysInMonth(EpochYear, mo) THEN mo
    ELSE MonthOfDay(day - DaysInMonth(EpochYear, mo), mo + 1)

\* the instant d lies in the calendar month m
InCalendarMonth(d, m) == <<EpochYear, MonthOfDay(d[1], 1)>> = ParseMonthKey(m)

\* the transactions of workspace w of a type, POSTED and dated in the calendar month m
Qualifying(w, type, m) ==
    {t \in DOMAIN transactions :
        /\ transactions[t].workspaceId = w /\ transactions[t].type = type
        /\ transactions[t].status = "POSTED" /\ InCalendarMonth(transactions[t].date, m)}

\* C11: computeIncomeTotal(w, m) and computeExpenseTotal(w, m) return the sum of amount
\* over the POSTED transactions of w of type INCOME (EXPENSE) dated from the first to the
\* last instant of the calendar month m, and 0 when there is none.
C11_TotalsArePostedInMonth ==
    /\ out.fn = "computeIncomeTotal" => out.result = SumAmount(Qualifying(out.w, "INCOME", out.m))
    /\ out.fn = "computeExpenseTotal" => out.result = SumAmount(Qualifying(out.w, "EXPENSE", out.m))

\* an expense total that counts a transaction dated at the last instant of the month
\* and leaves out one dated an instant later
C11_Witness ==
    /\ out.fn = "computeExpenseTotal" /\ out.m = "2024-03"
    /\ DOMAIN transactions = {1, 2}
    /\ \A t \in {1, 2} : /\ transactions[t].workspaceId = out.w
                         /\ transactions[t].type = "EXPENSE"
                         /\ transactions[t].status = "POSTED"
    /\ transactions[1].date = GetMonthDateRange("2024-03").end
    /\ transactions[2].date = InstantAfter(GetMonthDateRange("2024-03").end)
    /\ out.result = transactions[1].amount

\* the transactions that count as spending of group g in (w, m): POSTED EXPENSE
\* transactions of w dated in m whose category belongs to g
SpendingOf(g, w, m) ==
    {t \in Qualifying(w, "EXPENSE", m) :
        /\ transactions[t].categoryId # NoCategory
        /\ categories[transactions[t].categoryId].groupId = g}

\* C12: computeSpendingByGroup(w, m) has an entry for exactly the groups that have a
\* POSTED EXPENSE transaction of w dated in m in one of their categories, and the entry
\* is the sum of these transactions; a transaction without category is in no entry.
C12_SpendingByOwningGroup ==
    out.fn = "computeSpendingByGroup" =>
        \A g \in DOMAIN groups :
            IF SpendingOf(g, out.w, out.m) = {}
            THEN g \notin DOMAIN out.result
            ELSE /\ g \in DOMAIN out.result
                 /\ out.result[g] = SumAmount(SpendingOf(g, out.w, out.m))

\* C13: computeGroupBudgets(w, m) returns one summary per allocation of the plan of
\* (w, m), with budgetAmount = incomeTotal(w, m) * percentSnapshot / 100, spentAmount the
\* group's entry in computeSpendingByGroup(w, m), 0 if it has none, and remainingAmount =
\* budgetAmount - spentAmount, below zero on overspend (amounts in hundredths of a cent).
C13_GroupBudgets ==
    out.fn = "computeGroupBudgets" =>
        LET id == FindUniquePlan(out.w, out.m)
            spending == SpendingByGroup(out.w, out.m)
        IN  /\ id # 0
            /\ DOMAIN out.result = GroupsIn(id)
            /\ \A g \in GroupsIn(id) :
                LET s == out.result[g] IN
                /\ s.percentAllocation = allocations[<<id, g>>]
                /\ s.budgetAmount = IncomeTotal(out.w, out.m) * allocations[<<id, g>>]
                /\ s.spentAmount = IF g \in DOMAIN spending THEN 100 * spending[g] ELSE 0
                /\ s.remainingAmount = s.budgetAmount - s.spentAmount
                /\ IncomeTotal(out.w, out.m) = 0 => s.budgetAmount = 0

\* income 1000.00, group 1 at 50 percent with 600.00 spent: 500.00, 600.00, -100.00
C13_Witness ==
    /\ out.fn = "computeGroupBudgets"
    /\ IncomeTotal(out.w, out.m) = 100000
    /\ 1 \in DOMAIN out.result
    /\ out.result[1] = [percentAllocation |-> 50, budgetAmount |-> 5000000,
                        spentAmount |-> 6000000, remainingAmount |-> -1000000]

\* C14: no step of a computeGroupBudgets or computeMonthSummary call (both go through
\* getMonthlyAllocations) creates or changes a stored row, also when the month has no
\* plan yet.
C14_AggregationWritesNothing ==
    [][\A p \in Procs :
          (StepOf(p) /\ "getMonthlyAllocations" \in {req[p].op, req'[p].op}) =>
              /\ UNCHANGED <<groups, categories, plans, allocations>>
              /\ UNCHANGED <<transactions, installmentPlans>>]_vars

\* C15: a step of a ledger action invoked for workspace w leaves every Transaction and
\* InstallmentPlan row of another workspace as it is, and the rows it adds are rows of w.
C15_TenantIsolation ==
    [][\A w \in Workspaces :
          (\/ CreateTransaction(w) \/ UpdateTransaction(w) \/ DeleteTransaction(w)
           \/ PostInstallment(w) \/ CreateInstallment(w) \/ CancelInstallmentPlan(w)) =>
              /\ \A t \in DOMAIN transactions' :
                    IF t \in DOMAIN transactions
                    THEN transactions[t].workspaceId # w => transactions'[t] = transactions[t]
                    ELSE transactions'[t].workspaceId = w
              /\ \A i \in DOMAIN installmentPlans' :
                    IF i \in DOMAIN installmentPlans
                    THEN installmentPlans[i].workspaceId # w =>
                            installmentPlans'[i] = installmentPlans[i]
                    ELSE installmentPlans'[i].workspaceId = w]_vars

RECURSIVE SumCents(_)
\* the sum, in cents, of a list of amounts
SumCents(amounts) ==
    IF amounts = <<>> THEN 0 ELSE ToCents(Head(amounts)) + SumCents(Tail(amounts))

\* C16: for a total of whole cents and parts > 0, distributeAmount(total, parts) returns
\* parts amounts, each a whole number of cents, whose sum is the total to the cent.
C16_DistributeSumsToTotal ==
    (out.fn = "distributeAmount" /\ out.parts > 0) =>
        /\ out.result.error = "none"
        /\ Len(out.result.amounts) = out.parts
        /\ \A i \in 1..out.parts :
                out.result.amounts[i] = FromCents(ToCents(out.result.amounts[i]))
        /\ SumCents(out.result.amounts) = out.cents

\* 100.00 in three parts: 33.33, 33.33 and 33.34
C16_Witness ==
    /\ out.fn = "distributeAmount" /\ out.cents = 10000 /\ out.parts = 3
    /\ out.result.amounts = <<FromCents(3333), FromCents(3333), FromCents(3334)>>

\* C17: for parts > 0, each of the first parts - 1 amounts of distributeAmount(total, parts)
\* is total / parts floored to whole cents, and the last is that base amount plus the
\* whole remainder, total cents - parts * base cents.
C17_RemainderOnLastOnly ==
    (out.fn = "distributeAmount" /\ out.parts > 0) =>
        LET base == out.cents \div out.parts IN
        /\ Len(out.result.amounts) = out.parts
        /\ \A i \in 1..(out.parts - 1) : ToCents(out.result.amounts[i]) = base
        /\ ToCents(out.result.amounts[out.parts]) = base + (out.cents - out.parts * base)

\* C18: distributeAmount(total, parts) fails with an error and returns no list of
\* amounts whenever parts <= 0.
C18_NoPartsIsAnError ==
    (out.fn = "distributeAmount" /\ out.parts <= 0) => out.result.error # "none"

RECURSIVE SumSeq(_)
SumSeq(xs) == IF xs = <<>> THEN 0 ELSE Head(xs) + SumSeq(Tail(xs))

\* C20: for percentages of two decimals, validatePercentages(values) returns valid = true
\* exactly when their sum is 100, and total = their sum (here in hundredths).
C20_ValidIffSumIsHundred ==
    out.fn = "validatePercentages" =>
        /\ out.result.valid <=> (SumSeq(out.hundredths) = 10000)
        /\ ToCents(out.result.total) = SumSeq(out.hundredths)

\* the transactions linked to installment plan p
LinkedTo(p) == {t \in DOMAIN transactions : transactions[t].installmentPlanId = p}

\* the schedule of plan p is whole: installmentsCount transactions, numbered
\* 1..installmentsCount, each number once
WholeSchedule(p) ==
    /\ Cardinality(LinkedTo(p)) = installmentPlans[p].installmentsCount
    /\ {transactions[t].installmentNumber : t \in LinkedTo(p)}
         = 1..installmentPlans[p].installmentsCount

\* C19: in every reachable state each InstallmentPlan row has exactly
\* installmentsCount transactions linked to it, numbered 1..installmentsCount each
\* once, all of type EXPENSE.
C19_InstallmentSchedule ==
    \A p \in DOMAIN installmentPlans :
        /\ WholeSchedule(p)
        /\ \A t \in LinkedTo(p) : transactions[t].type = "EXPENSE"


\* ------------------------------------- server actions, inputs and responses
\* The server actions of budgets.ts with the arguments a client may send, in and out
\* of range, and the ActionResponse they return, kept in out as [fn, success, data] with the
\* arguments of updateGroupPercentages.

\* percent arguments: DECIMAL(5,2) stores every one of them
PercentInputs == {30, 70, 150}
\* ... and one below the range, for the actions that parse their data
SchemaInputs == PercentInputs \cup {-1}

\* defaultPercent: z.number().min(0).max(100)
CreateGroupSchema(pct) == pct >= 0 /\ pct <= 100

\* a response without data
NoData == [valid |-> FALSE, total |-> <<>>]

\* createBudgetGroup(workspaceId, data): createGroupSchema.parse(data) throws on a
\* percent out of range, and the catch returns {success: false}
CreateBudgetGroupAction(w, pct) ==
    /\ Cardinality(DOMAIN groups) < MaxGroups
    /\ IF CreateGroupSchema(pct)
       THEN /\ groups' = (Cardinality(DOMAIN groups) + 1 :>
                            [workspaceId |-> w, defaultPercent |-> pct, isActive |-> TRUE]) @@ groups
            /\ out' = [fn |-> "createBudgetGroup", success |-> TRUE, data |-> NoData]
       ELSE /\ UNCHANGED groups
            /\ out' = [fn |-> "createBudgetGroup", success |-> FALSE, data |-> NoData]
    /\ fresh' = 0
    /\ UNCHANGED <<categories, plans, allocations, req, ledgerVars>>

\* updateBudgetGroup(workspaceId, groupId, data): updateGroupSchema.parse(data), then
\* findFirst({where: {id: groupId, workspaceId}}), then update({where: {id}, data})
UpdateBudgetGroupAction(w, g, pct) ==
    /\ IF ~CreateGroupSchema(pct)
       THEN /\ UNCHANGED groups
            /\ out' = [fn |-> "updateBudgetGroup", success |-> FALSE, data |-> NoData]
       ELSE IF g \notin DOMAIN groups \/ groups[g].workspaceId # w
       THEN /\ UNCHANGED groups
            /\ out' = [fn |-> "updateBudgetGroup", success |-> FALSE, data |-> NoData]
       ELSE /\ groups' = [groups EXCEPT ![g].defaultPercent = pct]
            /\ out' = [fn |-> "updateBudgetGroup", success |-> TRUE, data |-> NoData]
    /\ fresh' = 0
    /\ UNCHANGED <<categories, plans, allocations, req, ledgerVars>>

\* the updateMany calls of one $transaction, applied in the order of the list
RECURSIVE ApplyPercentages(_, _, _)
ApplyPercentages(gs, w, percentages) ==
    IF percentages = <<>> THEN gs
    ELSE LET p == Head(percentages) IN
         ApplyPercentages([g \in DOMAIN gs |->
                             IF g = p.groupId /\ gs[g].workspaceId = w
                             THEN [gs[g] EXCEPT !.defaultPercent = p.percent]
                             ELSE gs[g]],
                          w, Tail(percentages))

\* the lists of {groupId, percent} a client may send
PercentageLists ==
    UNION {[1..n -> [groupId : GroupIds, percent : PercentInputs]] : n \in 0..MaxGroups}

\* validatePercentages(percentages.map(p => p.percent)) of every such list, as a table
ValidationOf ==
    [percentages \in PercentageLists |->
        Validate([i \in 1..Len(percentages) |-> FlOfInt(percentages[i].percent)])] @@ Empty

\* faulty variant: the write refused when the percentages do not sum to 100
UpdateGroupPercentagesStrict(w, percentages) ==
    LET validation == ValidationOf[percentages] IN
    /\ IF validation.valid
       THEN /\ groups' = ApplyPercentages(groups, w, percentages)
            /\ out' = [fn |-> "updateGroupPercentages", w |-> w, percentages |-> percentages,
                       success |-> TRUE, data |-> validation]
       ELSE /\ UNCHANGED groups
            /\ out' = [fn |-> "updateGroupPercentages", w |-> w, percentages |-> percentages,
                       success |-> FALSE, data |-> NoData]
    /\ fresh' = 0
    /\ UNCHANGED <<categories, plans, allocations, req, ledgerVars>>

\* updateGroupPercentages(workspaceId, percentages): no schema is parsed;
\* validation = validatePercentages(percentages.map(p => p.percent)), then the
\* $transaction of updateMany({where: {id, workspaceId}, data: {defaultPercent}}),
\* then {success: true, data: validation}
UpdateGroupPercentagesAction(w, percentages) ==
    /\ groups' = ApplyPercentages(groups, w, percentages)
    /\ out' = [fn |-> "updateGroupPercentages", w |-> w, percentages |-> percentages,
               success |-> TRUE, data |-> ValidationOf[percentages]]
    /\ fresh' = 0
    /\ UNCHANGED <<categories, plans, allocations, req, ledgerVars>>

\* the month the requests of this specification are made for
ConfigMonths == {"2024-03"}

\* The configuration of two workspaces is edited with arguments in and out of range,
\* and requests of w1 snapshot it, override allocations and read them.
NextConfig ==
    \/ \E w \in Workspaces, pct \in SchemaInputs : CreateBudgetGroupAction(w, pct)
    \/ \E w \in Workspaces, g \in GroupIds, pct \in SchemaInputs : UpdateBudgetGroupAction(w, g, pct)
    \/ \E w \in RequestWorkspaces, percentages \in PercentageLists :
            UpdateGroupPercentagesAction(w, percentages)
    \/ \E w \in RequestWorkspaces, m \in ConfigMonths :
        \/ EnsureMonthlyPlanExists(1, w, m)
        \/ ComputeGroupBudgets(1, w, m)
        \/ UpdateMonthlyAllocation(1, w, m)
    \/ FindManyGroups(1)
    \/ CreatePlan(1)
    \/ \E g \in GroupIds, pct \in PercentInputs : UpsertAllocationOf(1, g, pct)
    \/ ReadPlan(1)
    \/ ReadAllocations(1)
    \/ Return(1)

SpecConfig == Init /\ [][NextConfig]_vars


\* entry i of the list is the last one given for its group
LastGiven(percentages, i) ==
    \A j \in (i + 1)..Len(percentages) : percentages[j].groupId # percentages[i].groupId

\* C21: updateGroupPercentages stores every given defaultPercent of a group of the
\* workspace and returns success with the validation result, whether or not the
\* percentages sum to 100; and ensureMonthlyPlanExists creates the plan from the
\* configuration as it is, whatever its percentages sum to.
C21_PercentageSumIsAdvisory ==
    /\ out.fn = "updateGroupPercentages" =>
        /\ out.success
        /\ out.data = ValidationOf[out.percentages]
        /\ \A i \in 1..Len(out.percentages) :
                LET g == out.percentages[i].groupId IN
                (g \in DOMAIN groups /\ groups[g].workspaceId = out.w
                    /\ LastGiven(out.percentages, i))
                => groups[g].defaultPercent = out.percentages[i].percent
    /\ req[1].pc = "failed" => req[1].err = "P2003"
    /\ req[1].pc \in {"upsert", "readPlan", "readAllocs", "done"} => req[1].planId # 0

\* percentages summing to 140 were stored with success and an invalid validation, and
\* the month's plan was created from them and read
C21_Witness ==
    /\ out.fn = "updateGroupPercentages"
    /\ out.success
    /\ ~out.data.valid
    /\ DOMAIN groups = {1, 2}
    /\ \A g \in {1, 2} : groups[g].workspaceId = "w1" /\ groups[g].defaultPercent = 70
    /\ req[1].pc = "done"
    /\ req[1].op = "getMonthlyAllocations"
    /\ req[1].created
    /\ req[1].seen = (1 :> 70) @@ (2 :> 70)


\* C22: in every reachable state every BudgetGroup.defaultPercent and every
\* MonthlyGroupAllocation.percentSnapshot lies in [0, 100].
C22_PercentsInRange ==
    /\ \A g \in DOMAIN groups : groups[g].defaultPercent >= 0 /\ groups[g].defaultPercent <= 100
    /\ \A k \in DOMAIN allocations : allocations[k] >= 0 /\ allocations[k] <= 100

\* C29: in every reachable state every MonthlyGroupAllocation references a BudgetGroup
\* of the workspace of its plan.
C29_AllocationInPlanWorkspace ==
    \A k \in DOMAIN allocations :
        \A pl \in plans :
            pl.id = k[1] => k[2] \in DOMAIN groups /\ groups[k[2]].workspaceId = pl.workspaceId


\* ------------------------------------------------------- month keys as given
\* yearMonth is a string of the URL of the dashboard page and an argument of the server
\* action updateMonthlyGroupAllocation. Here a key is the sequence of its characters:
\* "2024-03", "2024-3" and "2024-13".
KeyInputs ==
    {<<"2", "0", "2", "4", "-", "0", "3">>,
     <<"2", "0", "2", "4", "-", "3">>,
     <<"2", "0", "2", "4", "-", "1", "3">>}

\* Requests of w1 with these keys, served one after the other: ensureMonthlyPlanExists
\* and updateMonthlyAllocation pass yearMonth to findUnique and to create as it is.
NextKeys ==
    \/ \E w \in RequestWorkspaces, k \in KeyInputs :
        \/ EnsureMonthlyPlanExists(1, w, k)
        \/ UpdateMonthlyAllocation(1, w, k)
    \/ FindManyGroups(1)
    \/ CreatePlan(1)
    \/ UpsertAllocation(1)
    \/ Return(1)
    \/ \E w \in RequestWorkspaces : CreateBudgetGroup(w)

SpecKeys == Init /\ [][NextKeys]_vars

DigitChars == <<"0", "1", "2", "3", "4", "5", "6", "7", "8", "9">>
IsDigit(c) == \E i \in 1..10 : DigitChars[i] = c
DigitValue(c) == (CHOOSE i \in 1..10 : DigitChars[i] = c) - 1

\* the literal form YYYY-MM with a zero-padded month 01..12
WellFormedKey(k) ==
    /\ Len(k) = 7
    /\ \A i \in {1, 2, 3, 4, 6, 7} : IsDigit(k[i])
    /\ k[5] = "-"
    /\ 10 * DigitValue(k[6]) + DigitValue(k[7]) \in 1..12

\* C23: every stored MonthlyBudgetPlan.yearMonth is of the form YYYY-MM with a month
\* 01..12: for a key of another form no plan row is created.
C23_StoredKeysWellFormed == \A pl \in plans : WellFormedKey(pl.yearMonth)


\* ------------------------------------------------- configuration and ledger
\* The operations that write BudgetGroup, BudgetCategory and Transaction rows, on one
\* workspace.
NextStore ==
    \E w \in RequestWorkspaces :
        \/ CreateBudgetGroup(w)
        \/ UpdateBudgetGroup(w)
        \/ UpdateGroupPercentages(w)
        \/ DeleteBudgetGroup(w)
        \/ CreateCategory(w)
        \/ DeleteCategory(w)
        \/ CreateTransaction(w)
        \/ UpdateTransaction(w)
        \/ DeleteTransaction(w)
        \/ PostInstallment(w)
        \/ CreateInstallment(w)
        \/ CancelInstallmentPlan(w)

SpecStore == Init /\ [][NextStore]_vars

\* C24: no step removes a BudgetGroup, BudgetCategory or Transaction row; a step that
\* deactivates a group or a category changes nothing else of the row, and a step
\* that voids a transaction changes nothing but its status.
C24_RemovalIsSoft ==
    [][/\ DOMAIN groups \subseteq DOMAIN groups'
       /\ DOMAIN categories \subseteq DOMAIN categories'
       /\ DOMAIN transactions \subseteq DOMAIN transactions'
       /\ \A g \in DOMAIN groups :
            (groups[g].isActive /\ ~groups'[g].isActive)
                => groups'[g] = [groups[g] EXCEPT !.isActive = FALSE]
       /\ \A c \in DOMAIN categories :
            (categories[c].isActive /\ ~categories'[c].isActive)
                => categories'[c] = [categories[c] EXCEPT !.isActive = FALSE]
       /\ \A t \in DOMAIN transactions :
            (transactions[t].status # "VOID" /\ transactions'[t].status = "VOID")
                => transactions'[t] = [transactions[t] EXCEPT !.status = "VOID"]]_vars

\* a group, its category and a transaction have been deleted, and their rows are there
C24_Witness ==
    /\ \E g \in DOMAIN groups : ~groups[g].isActive
    /\ \E c \in DOMAIN categories : ~categories[c].isActive
    /\ \E t \in DOMAIN transactions :
        transactions[t].status = "VOID" /\ transactions[t].installmentPlanId = 0


\* ------------------------------------------------------- financial accounts
\* server/actions/accounts.ts with the createTransaction of transactions.ts. Here a
\* Transaction row also has its accountId (NOT NULL, Transaction_accountId_fkey
\* REFERENCES FinancialAccount ON DELETE RESTRICT).

\* prisma.financialAccount.create
CreateAccount(w) ==
    /\ Cardinality(DOMAIN accounts) < MaxAccounts
    /\ accounts' = (Cardinality(DOMAIN accounts) + 1 :>
                      [workspaceId |-> w, isActive |-> TRUE, present |-> TRUE]) @@ accounts
    /\ UNCHANGED <<transactions, installmentPlans, members>>
    /\ UNCHANGED <<budgetVars, out>>

\* FinancialAccount has the row a
AccountExists(a) == a \in DOMAIN accounts /\ accounts[a].present

\* the Transaction rows that reference account a
ReferencesTo(a) == {t \in DOMAIN transactions : transactions[t].accountId = a}

\* createTransaction(workspaceId, {accountId, ...}): prisma.transaction.create; the
\* foreign key rejects an accountId that is no FinancialAccount row (P2003), and the
\* catch returns {success: false}. The account's workspace and isActive are not looked
\* at. The transactions entered here are expenses.
CreateTransactionOnAccount(w, a) ==
    /\ Cardinality(DOMAIN transactions) < MaxTransactions
    /\ IF AccountExists(a)
       THEN \E status \in {"POSTED", "PLANNED"} :
                transactions' = (Cardinality(DOMAIN transactions) + 1 :>
                                   [workspaceId |-> w, type |-> "EXPENSE", status |-> status,
                                    installmentPlanId |-> 0, installmentNumber |-> 0,
                                    accountId |-> a]) @@ transactions
       ELSE UNCHANGED transactions
    /\ out' = [fn |-> "createTransaction", success |-> AccountExists(a), data |-> NoData]
    /\ UNCHANGED <<installmentPlans, settingsVars>>
    /\ UNCHANGED budgetVars

\* deleteAccount(workspaceId, accountId), its first await:
\* prisma.transaction.count({where: {accountId, status: {not: "VOID"}}})
DeleteAccountCount(p, w, a) ==
    /\ req[p].pc = "idle"
    /\ req' = [req EXCEPT ![p] =
                  [Idle EXCEPT !.op = "deleteAccount", !.w = w, !.accountId = a,
                               !.transactionCount =
                                   Cardinality({t \in ReferencesTo(a) :
                                                   transactions[t].status # "VOID"}),
                               !.pc = "remove"]]
    /\ fresh' = 0
    /\ UNCHANGED <<groups, categories, plans, allocations>>
    /\ UNCHANGED <<ledgerVars, out>>

\* faulty variant: a foreign key that lets the referenced row go
DeleteAccountWriteUnrestricted(p) ==
    /\ req[p].pc = "remove"
    /\ LET a == req[p].accountId
           matches == AccountExists(a) /\ accounts[a].workspaceId = req[p].w
       IN  /\ accounts' = IF ~matches THEN accounts
                          ELSE IF req[p].transactionCount > 0
                          THEN [accounts EXCEPT ![a].isActive = FALSE]
                          ELSE [accounts EXCEPT ![a].present = FALSE]
           /\ req' = [req EXCEPT ![p].pc = "done"]
    /\ fresh' = 0
    /\ UNCHANGED <<groups, categories, plans, allocations>>
    /\ UNCHANGED <<transactions, installmentPlans, members, out>>

\* ... and its second: if (transactionCount > 0) financialAccount.updateMany({where:
\* {id, workspaceId}, data: {isActive: false}}) else financialAccount.deleteMany({where:
\* {id, workspaceId}}). The delete of a row that a Transaction references, of whatever
\* status, is rejected by the foreign key (P2003); the catch returns {success: false}.
DeleteAccountWrite(p) ==
    /\ req[p].pc = "remove"
    /\ LET a == req[p].accountId
           matches == AccountExists(a) /\ accounts[a].workspaceId = req[p].w
       IN  IF ~matches
           THEN /\ UNCHANGED accounts
                /\ req' = [req EXCEPT ![p].pc = "done"]
           ELSE IF req[p].transactionCount > 0
           THEN /\ accounts' = [accounts EXCEPT ![a].isActive = FALSE]
                /\ req' = [req EXCEPT ![p].pc = "done"]
           ELSE IF ReferencesTo(a) # {}
           THEN /\ UNCHANGED accounts
                /\ req' = [req EXCEPT ![p].pc = "failed", ![p].err = "P2003"]
           ELSE /\ accounts' = [accounts EXCEPT ![a].present = FALSE]
                /\ req' = [req EXCEPT ![p].pc = "done"]
    /\ fresh' = 0
    /\ UNCHANGED <<groups, categories, plans, allocations>>
    /\ UNCHANGED <<transactions, installmentPlans, members, out>>

\* Accounts of two workspaces are created and deleted while transactions of w1 are
\* entered on them and voided.
NextAccounts ==
    \/ \E w \in Workspaces :
        \/ CreateAccount(w)
        \/ \E a \in AccountIds : DeleteAccountCount(1, w, a)
    \/ \E w \in RequestWorkspaces :
        \/ \E a \in AccountIds : CreateTransactionOnAccount(w, a)
        \/ DeleteTransaction(w)
    \/ DeleteAccountWrite(1)
    \/ Return(1)

SpecAccounts == Init /\ [][NextAccounts]_vars

\* C25: no transaction points at a missing account: deleteAccount never removes a
\* FinancialAccount row that a transaction references, of whatever status.
C25_NoDanglingAccount ==
    \A t \in DOMAIN transactions : AccountExists(transactions[t].accountId)

\* deleteAccount counted no transaction on an account and its delete was rejected:
\* the account has a transaction that is not VOID, entered after the count
C25_Witness ==
    /\ req[1].pc = "failed"
    /\ req[1].op = "deleteAccount"
    /\ req[1].transactionCount = 0
    /\ accounts[req[1].accountId].present
    /\ \E t \in ReferencesTo(req[1].accountId) : transactions[t].status # "VOID"


\* ------------------------------------------------- cancelling an installment plan
\* The ledgers a plan is cancelled on: plan 1 of w1 with its two installments of 50.00
\* due on the first of March and of April 2024, each PLANNED or POSTED, and a third
\* transaction of either workspace that is in no plan. Here a Transaction row also
\* has its amount and date.
CancelRows ==
    [workspaceId : Workspaces, type : {"INCOME", "EXPENSE"},
     status : {"POSTED", "PLANNED", "VOID"},
     installmentPlanId : {0}, installmentNumber : {0},
     amount : {2500}, date : {GetMonthDateRange("2024-03").start}]

Installment(n, m, status) ==
    [workspaceId |-> "w1", type |-> "EXPENSE", status |-> status,
     installmentPlanId |-> 1, installmentNumber |-> n,
     amount |-> 5000, date |-> GetMonthDateRange(m).start]

InitCancel ==
    /\ groups = Empty
    /\ categories = Empty
    /\ plans = {}
    /\ allocations = Empty
    /\ req = [p \in Procs |-> Idle]
    /\ fresh = 0
    /\ \E s1 \in {"PLANNED", "POSTED"}, s2 \in {"PLANNED", "POSTED"}, row \in CancelRows :
        transactions = (1 :> Installment(1, "2024-03", s1))
                       @@ (2 :> Installment(2, "2024-04", s2)) @@ (3 :> row)
    /\ installmentPlans = (1 :> [workspaceId |-> "w1", isActive |-> TRUE, installmentsCount |-> 2])
    /\ accounts = Empty
    /\ members = Empty
    /\ out = NoCall

NextCancel ==
    \E w \in Workspaces :
        \/ CancelInstallmentPlan(w)
        \/ PostInstallment(w)
        \/ UpdateTransaction(w)
        \/ DeleteTransaction(w)

SpecCancel == InitCancel /\ [][NextCancel]_vars

\* C26: cancelInstallmentPlan(w, planId) for a plan of w sets the plan's isActive to
\* false and turns every PLANNED transaction of the plan to VOID in the same step;
\* every other transaction, and every other field, is left as it was.
C26_CancelFrame ==
    [][\A w \in Workspaces, planId \in DOMAIN installmentPlans :
            (installmentPlans[planId].workspaceId = w /\ CancelInstallmentPlanOf(w, planId)) =>
                /\ ~installmentPlans'[planId].isActive
                /\ DOMAIN transactions' = DOMAIN transactions
                /\ \A t \in DOMAIN transactions :
                        IF transactions[t].installmentPlanId = planId
                           /\ transactions[t].status = "PLANNED"
                        THEN /\ transactions'[t].status = "VOID"
                             /\ transactions'[t].amount = transactions[t].amount
                             /\ transactions'[t].date = transactions[t].date
                        ELSE transactions'[t] = transactions[t]]_vars

\* the plan has been cancelled: its posted first installment is still POSTED, its second
\* is VOID, and the planned transaction that is in no plan is still PLANNED
C26_Witness ==
    /\ ~installmentPlans[1].isActive
    /\ transactions[1].status = "POSTED"
    /\ transactions[2].status = "VOID"
    /\ transactions[3].status = "PLANNED"
    /\ transactions[3].amount = 2500


\* ------------------------------------------------------------ month summary
\* domain/summary.ts: computeMonthSummary awaits Promise.all of computeIncomeTotal,
\* computeExpenseTotal and computeGroupBudgets. Each query of the three is one step
\* of the store; the two aggregates may run at any point between the first query of
\* computeGroupBudgets and the return, and the writes of other requests run in between.

\* the value of a promise that has not resolved (sumIncome, sumExpense in Idle)
Pending == -1

\* computeGroupBudgets(workspaceId, monthKey) of the Promise.all starts with the
\* findUnique of ensureMonthlyPlanExists
MonthSummary(p, w, m) == Begin(p, "computeMonthSummary", w, m)

\* computeIncomeTotal(workspaceId, monthKey) of the Promise.all
MonthSummaryIncome(p) ==
    /\ req[p].op = "computeMonthSummary"
    /\ req[p].sumIncome = Pending
    /\ req' = [req EXCEPT ![p].sumIncome = IncomeTotal(req[p].w, req[p].m)]
    /\ fresh' = 0
    /\ UNCHANGED <<groups, categories, plans, allocations>>
    /\ UNCHANGED <<ledgerVars, out>>

\* computeExpenseTotal(workspaceId, monthKey) of the Promise.all
MonthSummaryExpense(p) ==
    /\ req[p].op = "computeMonthSummary"
    /\ req[p].sumExpense = Pending
    /\ req' = [req EXCEPT ![p].sumExpense = ExpenseTotal(req[p].w, req[p].m)]
    /\ fresh' = 0
    /\ UNCHANGED <<groups, categories, plans, allocations>>
    /\ UNCHANGED <<ledgerVars, out>>

\* computeGroupBudgets: const spendingByGroup = await computeSpendingByGroup(...);
\* return summaries. The groupBy and the findMany of categories are taken as one step.
MonthSummaryGroups(p) ==
    /\ req[p].pc = "spending" /\ req[p].op = "computeMonthSummary"
    /\ req' = [req EXCEPT ![p].budgetGroups =
                              Summaries(req[p].seen, req[p].incomeTotal,
                                        SpendingByGroup(req[p].w, req[p].m)),
                          ![p].pc = "groups"]
    /\ fresh' = 0
    /\ UNCHANGED <<groups, categories, plans, allocations>>
    /\ UNCHANGED <<ledgerVars, out>>

\* the three promises have resolved: return {monthKey, incomeTotal, expenseTotal,
\* balance, budgetGroups}
MonthSummaryReturn(p) ==
    /\ req[p].pc = "groups"
    /\ req[p].sumIncome # Pending
    /\ req[p].sumExpense # Pending
    /\ out' = [fn |-> "computeMonthSummary", w |-> req[p].w, m |-> req[p].m,
               incomeTotal |-> req[p].sumIncome, expenseTotal |-> req[p].sumExpense,
               balance |-> req[p].sumIncome - req[p].sumExpense,
               budgetGroups |-> req[p].budgetGroups]
    /\ req' = [req EXCEPT ![p] = Idle]
    /\ fresh' = 0
    /\ UNCHANGED <<groups, categories, plans, allocations>>
    /\ UNCHANGED ledgerVars

\* the month the summaries of this specification are computed for
SummaryMonth == "2024-03"

\* the transactions other requests enter meanwhile: row i of amount SummaryAmounts[i],
\* income or expense, posted or planned, dated in the month, with no category or the
\* first one
EnteredRows(w, i) ==
    [workspaceId : {w}, type : {"INCOME", "EXPENSE"}, status : {"POSTED", "PLANNED"},
     installmentPlanId : {0}, installmentNumber : {0},
     amount : {SummaryAmounts[i]},
     date : {GetMonthDateRange(SummaryMonth).start},
     categoryId : {NoCategory, 1}]

\* createTransaction(workspaceId, data) with amount, date and category
EnterTransaction(w) ==
    /\ Cardinality(DOMAIN transactions) < MaxRows
    /\ \E row \in EnteredRows(w, Cardinality(DOMAIN transactions) + 1) :
        transactions' = (Cardinality(DOMAIN transactions) + 1 :> row) @@ transactions
    /\ UNCHANGED <<installmentPlans, settingsVars>>
    /\ UNCHANGED <<budgetVars, out>>

\* two active groups of w1 at 50 and 30 percent, one category in each, and no
\* transaction yet
InitMonth ==
    /\ groups = (1 :> [workspaceId |-> "w1", defaultPercent |-> 50, isActive |-> TRUE])
                @@ (2 :> [workspaceId |-> "w1", defaultPercent |-> 30, isActive |-> TRUE])
    /\ categories = (1 :> [workspaceId |-> "w1", groupId |-> 1, isActive |-> TRUE])
                    @@ (2 :> [workspaceId |-> "w1", groupId |-> 2, isActive |-> TRUE])
    /\ plans = {}
    /\ allocations = Empty
    /\ req = [p \in Procs |-> Idle]
    /\ fresh = 0
    /\ transactions = Empty
    /\ installmentPlans = Empty
    /\ accounts = Empty
    /\ members = Empty
    /\ out = NoCall

\* A dashboard request computes the summary of the month while transactions of the
\* workspace are entered, updated and deleted.
NextMonth ==
    \/ \E w \in RequestWorkspaces : out = NoCall /\ MonthSummary(1, w, SummaryMonth)
    \/ FindManyGroups(1)
    \/ CreatePlan(1)
    \/ ReadPlan(1)
    \/ ReadAllocations(1)
    \/ GroupBudgetsIncome(1)
    \/ MonthSummaryGroups(1)
    \/ MonthSummaryIncome(1)
    \/ MonthSummaryExpense(1)
    \/ MonthSummaryReturn(1)
    \/ \E w \in RequestWorkspaces :
        \/ EnterTransaction(w)
        \/ UpdateTransaction(w)
        \/ DeleteTransaction(w)

SpecMonth == InitMonth /\ [][NextMonth]_vars

\* C27: in every result of computeMonthSummary, budgetAmount of every group is the
\* summary's incomeTotal * percentAllocation / 100 (amounts in hundredths of a cent).
C27_BudgetFromSummaryIncome ==
    out.fn = "computeMonthSummary" =>
        \A g \in DOMAIN out.budgetGroups :
            out.budgetGroups[g].budgetAmount
                = out.incomeTotal * out.budgetGroups[g].percentAllocation

RECURSIVE SumSpent(_, _)
SumSpent(budgetGroups, S) ==
    IF S = {} THEN 0
    ELSE LET g == CHOOSE x \in S : TRUE IN
         budgetGroups[g].spentAmount + SumSpent(budgetGroups, S \ {g})

\* C28: in every result of computeMonthSummary, the sum of spentAmount over the budget
\* groups is at most expenseTotal (spentAmount in hundredths of a cent).
C28_SpentWithinExpenses ==
    out.fn = "computeMonthSummary" =>
        SumSpent(out.budgetGroups, DOMAIN out.budgetGroups) <= 100 * out.expenseTotal

\* ----------------------------------------------------------- workspace members
\* createWorkspace, inviteMember, updateMemberRole and removeMember of workspace.ts.
\* A WorkspaceMember row that was deleted keeps its id with present FALSE (ids are
\* not used again); every workspace is created with a member row, so the workspaces
\* that exist are those some row, present or not, names.

MaxMembers == 3

Users == {"u1", "u2"}

Roles == {"ADMIN", "EDITOR", "VIEWER"}

MemberIds == 1..MaxMembers

\* the Workspace rows
WorkspaceRows == {members[i].workspaceId : i \in DOMAIN members}

\* prisma.workspaceMember.findUnique({where: {userId_workspaceId}})
MembershipOf(u, w) ==
    {i \in DOMAIN members :
        members[i].present /\ members[i].userId = u /\ members[i].workspaceId = w}

\* requireWorkspaceRole(user.id, workspaceId, "ADMIN") returns and canAdmin(role) holds
IsAdminOf(u, w) == \E i \in MembershipOf(u, w) : members[i].role = "ADMIN"

\* prisma.workspaceMember.findUnique({where: {id: memberId}}) finds a row
MemberFound(memberId) == memberId \in DOMAIN members /\ members[memberId].present

\* the frame of the member actions
MembersFrame == UNCHANGED <<transactions, installmentPlans, accounts, budgetVars>>

\* createWorkspace(data) by user u: prisma.workspace.create with the nested create of
\* the creator's member row, role ADMIN
CreateWorkspace(u) ==
    /\ Cardinality(DOMAIN members) < MaxMembers
    /\ \E w \in Workspaces \ WorkspaceRows :
        /\ members' = (Cardinality(DOMAIN members) + 1 :>
                         [userId |-> u, workspaceId |-> w, role |-> "ADMIN", present |-> TRUE])
                      @@ members
        /\ out' = [fn |-> "createWorkspace", user |-> u, w |-> w, success |-> TRUE]
    /\ MembersFrame

\* inviteMember(workspaceId, {email, role}) by user u; invited is the user of the email
InviteMember(u, w, invited, role) ==
    /\ w \in WorkspaceRows
    /\ Cardinality(DOMAIN members) < MaxMembers
    /\ IF IsAdminOf(u, w) /\ MembershipOf(invited, w) = {}
       THEN /\ members' = (Cardinality(DOMAIN members) + 1 :>
                             [userId |-> invited, workspaceId |-> w, role |-> role,
                              present |-> TRUE]) @@ members
            /\ out' = [fn |-> "inviteMember", user |-> u, w |-> w, success |-> TRUE]
       ELSE /\ out' = [fn |-> "inviteMember", user |-> u, w |-> w, success |-> FALSE]
            /\ UNCHANGED members
    /\ MembersFrame

\* updateMemberRole(workspaceId, {memberId, role}) by user u: the role check in
\* workspaceId, findUnique by id, "Cannot change your own role" when the row is the
\* caller's, update by id (P2025 when no row has the id)
UpdateMemberRole(u, w, memberId, role) ==
    /\ w \in WorkspaceRows
    /\ IF /\ IsAdminOf(u, w)
          /\ MemberFound(memberId)
          /\ members[memberId].userId # u
       THEN /\ members' = [members EXCEPT ![memberId].role = role]
            /\ out' = [fn |-> "updateMemberRole", user |-> u, w |-> w, success |-> TRUE]
       ELSE /\ out' = [fn |-> "updateMemberRole", user |-> u, w |-> w, success |-> FALSE]
            /\ UNCHANGED members
    /\ MembersFrame

\* removeMember(workspaceId, memberId) by user u: the role check in workspaceId,
\* findUnique by id, "Cannot remove yourself" when the row is the caller's, delete by
\* id (P2025 when no row has the id)
RemoveMember(u, w, memberId) ==
    /\ w \in WorkspaceRows
    /\ IF /\ IsAdminOf(u, w)
          /\ MemberFound(memberId)
          /\ members[memberId].userId # u
       THEN /\ members' = [members EXCEPT ![memberId].present = FALSE]
            /\ out' = [fn |-> "removeMember", user |-> u, w |-> w, success |-> TRUE]
       ELSE /\ out' = [fn |-> "removeMember", user |-> u, w |-> w, success |-> FALSE]
            /\ UNCHANGED members
    /\ MembersFrame

\* The users create workspaces and manage their members.
NextMembers ==
    \E u \in Users :
        \/ CreateWorkspace(u)
        \/ \E w \in Workspaces :
            \/ \E invited \in Users, role \in Roles : InviteMember(u, w, invited, role)
            \/ \E memberId \in MemberIds, role \in Roles : UpdateMemberRole(u, w, memberId, role)
            \/ \E memberId \in MemberIds : RemoveMember(u, w, memberId)

SpecMembers == Init /\ [][NextMembers]_vars

\* the present ADMIN rows of workspace w
AdminsOf(w) ==
    {i \in DOMAIN members :
        members[i].present /\ members[i].workspaceId = w /\ members[i].role = "ADMIN"}

\* C30: in every reachable state every workspace has at least one ADMIN member.
C30_WorkspaceKeepsAdmin == \A w \in WorkspaceRows : AdminsOf(w) # {}

====
